---------------------------- MODULE Spec2Model ----------------------------
(***************************************************************************)
(* A model of utils/datasets/cifar100_dataset.py: the CIFAR-100 image map, *)
(* the preprocessing-function builder, the federated and the centralized   *)
(* dataset assemblers, and the iteration of a built pipeline               *)
(* (shuffle -> repeat -> batch -> map) over a dataset.                     *)
(*                                                                         *)
(* Python values are modelled as follows.  A tuple is a sequence, so the   *)
(* Python index t[i] is t[i+1] here.  A crop_shape argument is a record    *)
(* [iterable, elems]: a non-iterable argument (an int, None) has           *)
(* iterable = FALSE.  A serializable argument is a record [is_bool, truth].*)
(* A call's outcome is a record [raised, events, returned, ...]: `events`  *)
(* is the order of the call's externally visible steps ("load_data" is the *)
(* bulk load of tff.simulation.datasets.cifar100.load_data).               *)
(* collections.Iterable is taken to exist (Python < 3.10), as the source   *)
(* assumes.                                                                *)
(***************************************************************************)
EXTENDS Integers, Sequences, FiniteSets

VARIABLES
    fn,        \* the entry point that was called ("idle" before any call)
    args,      \* the arguments of that call
    ret,       \* the outcome of that call
    pipe,      \* the preprocess_fn being iterated (pipeline specification)
    ds,        \* the dataset the pipeline is applied to (records 1..N)
    epoch,     \* the pass of repeat() that is being produced
    nextIn,    \* next position of the shuffle input to be read
    buffer,    \* positions of the shuffle input held in the shuffle buffer
    stream,    \* records emitted by shuffle().repeat(), in order
    batches,   \* batches emitted by batch()
    out        \* results of map(image_map_fn) on the batches

config_vars == <<fn, args, ret>>
pipe_vars == <<pipe, ds, epoch, nextIn, buffer, stream, batches, out>>
vars == <<fn, args, ret, pipe, ds, epoch, nextIn, buffer, stream, batches, out>>

\* Bounds of the explored inputs.
MaxEpochs == 2
MaxBatch == 3
MaxBuf == 3
MaxN == 3

CIFAR_SHAPE == <<32, 32, 3>>

---------------------------------------------------------------------------
\* build_image_map

\* The centered crop-or-pad taken when distort is false:
\* target_height=crop_shape[1], target_width=crop_shape[2] (0-based).
resize_targets(crop_shape) ==
    [target_height |-> crop_shape[2], target_width |-> crop_shape[3]]

\* The image map is described by what its crop_fn is called with.
build_image_map(crop_shape, distort) ==
    IF distort
    THEN [distort |-> TRUE, size |-> crop_shape,
          target_height |-> 0, target_width |-> 0]
    ELSE [distort |-> FALSE, size |-> <<>>,
          target_height |-> resize_targets(crop_shape).target_height,
          target_width |-> resize_targets(crop_shape).target_width]

\* tf.image.random_crop(image, size): the ranks must agree and size must be
\* element-wise no larger than the shape of image.
random_crop_ok(shape, size) ==
    /\ Len(shape) = Len(size)
    /\ \A i \in 1..Len(size) : size[i] <= shape[i]

\* image_map applied to one batch whose 'image' has shape (n, 32, 32, 3).
image_map(image_map_fn, n) ==
    LET shape == <<n>> \o CIFAR_SHAPE IN
    IF image_map_fn.distort
    THEN IF random_crop_ok(shape, image_map_fn.size)
         THEN [ok |-> TRUE, shape |-> image_map_fn.size]
         ELSE [ok |-> FALSE, shape |-> shape]
    ELSE [ok |-> TRUE,
          shape |-> <<n, image_map_fn.target_height,
                      image_map_fn.target_width, 3>>]

---------------------------------------------------------------------------
\* create_preprocess_fn

Raise(error, events) ==
    [raised |-> error, events |-> Append(events, "raise"), returned |-> FALSE]

\* if num_epochs < 1: raise ValueError
NumEpochsInvalid_Mut(num_epochs) == num_epochs < 0
NumEpochsInvalid(num_epochs) == num_epochs < 1

\* if shuffle_buffer_size <= 1: shuffle_buffer_size = 1
NormalizeShuffleBuffer_Mut(shuffle_buffer_size) == shuffle_buffer_size
NormalizeShuffleBuffer(shuffle_buffer_size) ==
    IF shuffle_buffer_size <= 1 THEN 1 ELSE shuffle_buffer_size

create_preprocess_fn(num_epochs, batch_size, shuffle_buffer_size, crop_shape, distort_image) ==
    IF NumEpochsInvalid(num_epochs)
    THEN Raise("ValueError", <<>>)
    ELSE [raised |-> "none", events |-> <<>>, returned |-> TRUE,
          preprocess_fn |->
              [num_epochs |-> num_epochs,
               batch_size |-> batch_size,
               shuffle_buffer_size |->
                   NormalizeShuffleBuffer(shuffle_buffer_size),
               image_map_fn |-> build_image_map(crop_shape, distort_image)]]

---------------------------------------------------------------------------
\* get_federated_datasets

IsIterable(crop_shape) == crop_shape.iterable
tuple(crop_shape) == crop_shape.elems
IsBool(serializable) == serializable.is_bool

FedCropLenInvalid(crop_shape) == Len(crop_shape) # 3
TrainEpochsInvalid(train_client_epochs_per_round) ==
    train_client_epochs_per_round < 1
TestEpochsInvalid(test_client_epochs_per_round) ==
    test_client_epochs_per_round < 0
FedNormalizeShuffleBuffer(shuffle_buffer_size) ==
    IF shuffle_buffer_size <= 1 THEN 1 ELSE shuffle_buffer_size

\* distort_image=not serializable
TrainDistortImage_Mut(serializable) == TRUE
TrainDistortImage(serializable) == ~serializable.truth

\* Lines 177-197: everything after the argument checks.
federated_body(a, crop_shape) ==
    LET loaded == <<"load_data">>
        train_crop_shape == <<a.train_client_batch_size>> \o crop_shape
        test_crop_shape == <<a.test_client_batch_size>> \o crop_shape
        train_preprocess_fn ==
            create_preprocess_fn(
                a.train_client_epochs_per_round,
                a.train_client_batch_size,
                FedNormalizeShuffleBuffer(a.train_shuffle_buffer_size),
                train_crop_shape,
                TrainDistortImage(a.serializable))
        test_preprocess_fn ==
            create_preprocess_fn(
                a.test_client_epochs_per_round,
                a.test_client_batch_size,
                FedNormalizeShuffleBuffer(a.test_shuffle_buffer_size),
                test_crop_shape,
                FALSE)
    IN  IF train_preprocess_fn.raised # "none"
        THEN Raise(train_preprocess_fn.raised, loaded)
        ELSE IF test_preprocess_fn.raised # "none"
        THEN Raise(test_preprocess_fn.raised, loaded)
        ELSE [raised |-> "none",
              events |-> loaded \o <<"preprocess", "return">>,
              returned |-> TRUE,
              cifar_train |-> train_preprocess_fn.preprocess_fn,
              cifar_test |-> test_preprocess_fn.preprocess_fn]

get_federated_datasets(a) ==
    IF ~IsIterable(a.crop_shape)
    THEN Raise("TypeError", <<>>)
    ELSE IF FedCropLenInvalid(tuple(a.crop_shape))
    THEN Raise("ValueError", <<>>)
    ELSE IF ~IsBool(a.serializable)
    THEN Raise("TypeError", <<>>)
    ELSE IF TrainEpochsInvalid(a.train_client_epochs_per_round)
    THEN Raise("ValueError", <<>>)
    ELSE IF TestEpochsInvalid(a.test_client_epochs_per_round)
    THEN Raise("ValueError", <<>>)
    ELSE federated_body(a, tuple(a.crop_shape))

---------------------------------------------------------------------------
\* get_centralized_datasets

CentCropLenInvalid_Mut(crop_shape) == Len(crop_shape) < 3
CentCropLenInvalid(crop_shape) == Len(crop_shape) # 3
CentNormalizeShuffleBuffer(shuffle_buffer_size) ==
    IF shuffle_buffer_size <= 1 THEN 1 ELSE shuffle_buffer_size

\* Lines 241-264: everything after the argument checks.
centralized_body(a, crop_shape) ==
    LET loaded == <<"load_data", "create_tf_dataset_from_all_clients">>
        train_crop_shape == <<a.train_batch_size>> \o crop_shape
        test_crop_shape == <<a.test_batch_size>> \o crop_shape
        train_preprocess_fn ==
            create_preprocess_fn(
                1, a.train_batch_size,
                CentNormalizeShuffleBuffer(a.train_shuffle_buffer_size),
                train_crop_shape, TRUE)
        test_preprocess_fn ==
            create_preprocess_fn(
                1, a.test_batch_size,
                CentNormalizeShuffleBuffer(a.test_shuffle_buffer_size),
                test_crop_shape, FALSE)
    IN  IF train_preprocess_fn.raised # "none"
        THEN Raise(train_preprocess_fn.raised, loaded)
        ELSE IF test_preprocess_fn.raised # "none"
        THEN Raise(test_preprocess_fn.raised, loaded)
        ELSE [raised |-> "none",
              events |-> loaded \o <<"preprocess", "return">>,
              returned |-> TRUE,
              cifar_train |-> train_preprocess_fn.preprocess_fn,
              cifar_test |-> test_preprocess_fn.preprocess_fn]

get_centralized_datasets(a) ==
    IF ~IsIterable(a.crop_shape)
    THEN Raise("ValueError", <<>>)
    ELSE IF CentCropLenInvalid(tuple(a.crop_shape))
    THEN Raise("ValueError", <<>>)
    ELSE centralized_body(a, tuple(a.crop_shape))

---------------------------------------------------------------------------
\* The calls that are explored.

Iter(t) == [iterable |-> TRUE, elems |-> t]
NotIterable == [iterable |-> FALSE, elems |-> <<>>]
Bool(b) == [is_bool |-> TRUE, truth |-> b]
NonBool(b) == [is_bool |-> FALSE, truth |-> b]

\* crop shapes (h, w, 3) with h, w <= 32
CropTuples == {<<h, w, 3>> : h \in {24, 32}, w \in {24, 32}}
\* crop_shape arguments: valid ones, wrong lengths, a non-iterable
CropArgs ==
    {Iter(t) : t \in CropTuples \cup {<<32, 32>>, <<32, 32, 3, 1>>}}
        \cup {NotIterable}
SerializableArgs == {Bool(TRUE), Bool(FALSE), NonBool(TRUE)}
EpochArgs == (-1)..MaxEpochs
BatchArgs == 1..MaxBatch
BufferArgs == (-1)..MaxBuf

ImageMapArgs ==
    [crop_shape : CropTuples, distort : BOOLEAN]
PreprocessArgs ==
    [num_epochs : EpochArgs, batch_size : BatchArgs,
     shuffle_buffer_size : BufferArgs,
     crop_shape : CropTuples \cup {<<b>> \o CIFAR_SHAPE : b \in BatchArgs},
     distort_image : BOOLEAN]
FederatedArgs ==
    [train_client_batch_size : BatchArgs, test_client_batch_size : {1, MaxBatch},
     train_client_epochs_per_round : EpochArgs,
     test_client_epochs_per_round : EpochArgs,
     train_shuffle_buffer_size : BufferArgs, test_shuffle_buffer_size : {1},
     crop_shape : CropArgs, serializable : SerializableArgs]
CentralizedArgs ==
    [train_batch_size : BatchArgs, test_batch_size : BatchArgs,
     train_shuffle_buffer_size : BufferArgs,
     test_shuffle_buffer_size : {0, 1},
     crop_shape : CropArgs]

NoPipeline ==
    [num_epochs |-> 0, batch_size |-> 0, shuffle_buffer_size |-> 0,
     image_map_fn |-> build_image_map(CIFAR_SHAPE, FALSE)]

PipeIdle ==
    /\ pipe = NoPipeline
    /\ ds = <<>>
    /\ epoch = 0
    /\ nextIn = 0
    /\ buffer = {}
    /\ stream = <<>>
    /\ batches = <<>>
    /\ out = <<>>

Init ==
    /\ fn = "idle"
    /\ args = <<>>
    /\ ret = <<>>
    /\ PipeIdle

Call_build_image_map ==
    /\ fn = "idle"
    /\ \E a \in ImageMapArgs :
        /\ fn' = "build_image_map"
        /\ args' = a
        /\ ret' = [raised |-> "none", events |-> <<"return">>,
                   returned |-> TRUE,
                   image_map_fn |-> build_image_map(a.crop_shape, a.distort)]
    /\ UNCHANGED pipe_vars

Call_create_preprocess_fn ==
    /\ fn = "idle"
    /\ \E a \in PreprocessArgs :
        /\ fn' = "create_preprocess_fn"
        /\ args' = a
        /\ ret' = create_preprocess_fn(a.num_epochs, a.batch_size,
                                       a.shuffle_buffer_size, a.crop_shape,
                                       a.distort_image)
    /\ UNCHANGED pipe_vars

Call_get_federated_datasets ==
    /\ fn = "idle"
    /\ \E a \in FederatedArgs :
        /\ fn' = "get_federated_datasets"
        /\ args' = a
        /\ ret' = get_federated_datasets(a)
    /\ UNCHANGED pipe_vars

Call_get_centralized_datasets ==
    /\ fn = "idle"
    /\ \E a \in CentralizedArgs :
        /\ fn' = "get_centralized_datasets"
        /\ args' = a
        /\ ret' = get_centralized_datasets(a)
    /\ UNCHANGED pipe_vars

Next ==
    \/ Call_build_image_map
    \/ Call_create_preprocess_fn
    \/ Call_get_federated_datasets
    \/ Call_get_centralized_datasets

Spec == Init /\ [][Next]_vars

---------------------------------------------------------------------------
\* Iterating a built pipeline:
\*   dataset.shuffle(shuffle_buffer_size).repeat(num_epochs)
\*          .batch(batch_size).map(image_map_fn)

Dataset(n) == [i \in 1..n |-> i]

RECURSIVE Repeat(_, _)
Repeat(s, n) == IF n <= 0 THEN <<>> ELSE s \o Repeat(s, n - 1)

\* The order of the first two stages: shuffle reads the dataset itself, and
\* repeat re-runs the shuffled dataset num_epochs times.
Stages_RepeatFirst(dataset, num_epochs) ==
    [shuffle_input |-> Repeat(dataset, num_epochs), repeat_count |-> 1]
Stages_NoRepeat(dataset, num_epochs) ==
    [shuffle_input |-> dataset, repeat_count |-> 1]
Stages(dataset, num_epochs) ==
    [shuffle_input |-> dataset, repeat_count |-> num_epochs]

ShuffleInput == Stages(ds, pipe.num_epochs).shuffle_input
RepeatCount == Stages(ds, pipe.num_epochs).repeat_count

\* shuffle(k) keeps its buffer filled with the next unread input positions,
\* up to k of them.
Filled(buf, nxt, k, len) ==
    buf \cup {p \in nxt..len : p < nxt + (k - Cardinality(buf))}

\* batch(batch_size) has taken these records and not yet emitted them.
Pending ==
    SubSeq(stream, pipe.batch_size * Len(batches) + 1, Len(stream))

PassDone == buffer = {} /\ nextIn > Len(ShuffleInput)
Exhausted == PassDone /\ epoch >= RepeatCount
Failed == \E i \in 1..Len(out) : ~out[i].ok
Pulling ==
    /\ ~Failed
    /\ Len(out) = Len(batches)
    /\ Len(Pending) < pipe.batch_size
Finished == Exhausted /\ Pending = <<>> /\ Len(out) = Len(batches)

\* shuffle emits a uniformly chosen element of its buffer.
ShuffleNext ==
    /\ Pulling
    /\ LET filled == Filled(buffer, nextIn, pipe.shuffle_buffer_size,
                            Len(ShuffleInput))
       IN  /\ filled # {}
           /\ \E p \in filled :
                /\ stream' = Append(stream, ShuffleInput[p])
                /\ buffer' = filled \ {p}
           /\ nextIn' = nextIn + Cardinality(filled \ buffer)
    /\ UNCHANGED <<fn, args, ret, pipe, ds, epoch, batches, out>>

\* repeat starts the next pass over the shuffled dataset.
RepeatNext ==
    /\ Pulling
    /\ PassDone
    /\ epoch < RepeatCount
    /\ epoch' = epoch + 1
    /\ nextIn' = 1
    /\ UNCHANGED <<fn, args, ret, pipe, ds, buffer, stream, batches, out>>

\* batch emits batch_size records, or what is left at the end of the
\* stream (drop_remainder defaults to False).
BatchNext ==
    /\ ~Failed
    /\ Len(out) = Len(batches)
    /\ \/ Len(Pending) = pipe.batch_size
       \/ Exhausted /\ Len(Pending) > 0
    /\ batches' = Append(batches, Pending)
    /\ UNCHANGED <<fn, args, ret, pipe, ds, epoch, nextIn, buffer, stream, out>>

\* map applies image_map_fn to the batch.
MapNext ==
    /\ Len(out) < Len(batches)
    /\ out' = Append(out, image_map(pipe.image_map_fn,
                                    Len(batches[Len(out) + 1])))
    /\ UNCHANGED <<fn, args, ret, pipe, ds, epoch, nextIn, buffer, stream,
                   batches>>

\* The arguments of the calls whose pipeline is iterated.
PipeConfigs ==
    [epochs : 1..MaxEpochs, batch : BatchArgs, buf : BufferArgs,
     flag : BOOLEAN]

PipeStart ==
    /\ ds \in {Dataset(n) : n \in 1..MaxN}
    /\ epoch = 1
    /\ nextIn = 1
    /\ buffer = {}
    /\ stream = <<>>
    /\ batches = <<>>
    /\ out = <<>>

\* create_preprocess_fn(num_epochs, batch_size, shuffle_buffer_size) with the
\* default crop_shape and distort_image.
InitDirect ==
    \E c \in PipeConfigs :
        /\ c.flag = FALSE
        /\ fn = "create_preprocess_fn"
        /\ args = [num_epochs |-> c.epochs, batch_size |-> c.batch,
                   shuffle_buffer_size |-> c.buf, crop_shape |-> CIFAR_SHAPE,
                   distort_image |-> FALSE]
        /\ ret = create_preprocess_fn(c.epochs, c.batch, c.buf, CIFAR_SHAPE,
                                      FALSE)
        /\ ret.returned
        /\ pipe = ret.preprocess_fn

InitFederated ==
    \E c \in PipeConfigs :
        /\ fn = "get_federated_datasets"
        /\ args = [train_client_batch_size |-> c.batch,
                   test_client_batch_size |-> c.batch,
                   train_client_epochs_per_round |-> c.epochs,
                   test_client_epochs_per_round |-> c.epochs,
                   train_shuffle_buffer_size |-> c.buf,
                   test_shuffle_buffer_size |-> c.buf,
                   crop_shape |-> Iter(CIFAR_SHAPE),
                   serializable |-> Bool(c.flag)]
        /\ ret = get_federated_datasets(args)
        /\ ret.returned
        /\ pipe \in {ret.cifar_train, ret.cifar_test}

InitCentralized ==
    \E c \in PipeConfigs :
        /\ c.flag = FALSE
        /\ c.epochs = 1
        /\ fn = "get_centralized_datasets"
        /\ args = [train_batch_size |-> c.batch, test_batch_size |-> c.batch,
                   train_shuffle_buffer_size |-> c.buf,
                   test_shuffle_buffer_size |-> c.buf,
                   crop_shape |-> Iter(CIFAR_SHAPE)]
        /\ ret = get_centralized_datasets(args)
        /\ ret.returned
        /\ pipe \in {ret.cifar_train, ret.cifar_test}

PipeInit ==
    /\ InitDirect \/ InitFederated \/ InitCentralized
    /\ PipeStart

PipeNext ==
    \/ ShuffleNext
    \/ RepeatNext
    \/ BatchNext
    \/ MapNext

PipeSpec == PipeInit /\ [][PipeNext]_vars

---------------------------------------------------------------------------
\* Properties of the calls (checked under Spec).

Federated == fn = "get_federated_datasets"
Centralized == fn = "get_centralized_datasets"
Loaded == \E i \in 1..Len(ret.events) : ret.events[i] = "load_data"

\* The other arguments of get_federated_datasets are valid: a 3-element
\* crop_shape, a boolean serializable, train_client_epochs_per_round >= 1.
FederatedOthersValid ==
    /\ args.crop_shape.iterable
    /\ Len(args.crop_shape.elems) = 3
    /\ args.serializable.is_bool
    /\ args.train_client_epochs_per_round >= 1

\* C1: a call of get_federated_datasets that ends in a TypeError or a
\* ValueError has not performed the dataset load.
C1_ArgumentErrorsBeforeLoad ==
    (Federated /\ ret.raised \in {"TypeError", "ValueError"}) => ~Loaded

C3_CentralizedCropRejected ==
    (Centralized /\ (~args.crop_shape.iterable
                        \/ Len(args.crop_shape.elems) # 3)) =>
        /\ ret.raised = "ValueError"
        /\ ~Loaded
        /\ ~ret.returned

C3_Witness ==
    /\ Centralized
    /\ args.crop_shape = Iter(<<32, 32>>)
    /\ ret.raised = "ValueError"
    /\ ret.events = <<"raise">>

\* C4: create_preprocess_fn raises a ValueError and returns no pipeline for
\* every num_epochs < 1, and returns a pipeline for every num_epochs >= 1,
\* whatever the other arguments.
C4_NumEpochsPositive ==
    fn = "create_preprocess_fn" =>
        /\ args.num_epochs < 1 => (ret.raised = "ValueError" /\ ~ret.returned)
        /\ args.num_epochs >= 1 =>
              /\ ret.raised = "none"
              /\ ret.returned
              /\ ret.preprocess_fn.num_epochs = args.num_epochs
              /\ ret.preprocess_fn.batch_size = args.batch_size

C4_Witness ==
    /\ fn = "create_preprocess_fn"
    /\ args.num_epochs = 0
    /\ args.distort_image
    /\ ret.raised = "ValueError"

\* C5: in every successful call of get_federated_datasets the train pipeline
\* distorts if and only if serializable is False, and the test pipeline
\* never distorts.
C5_DistortIffNotSerializable ==
    (Federated /\ ret.returned) =>
        /\ ret.cifar_train.image_map_fn.distort <=> ~args.serializable.truth
        /\ ~ret.cifar_test.image_map_fn.distort

C5_Witness ==
    /\ Federated
    /\ ret.returned
    /\ args.serializable = Bool(TRUE)
    /\ ~ret.cifar_train.image_map_fn.distort

\* C8: with distortion disabled and crop_shape = (h, w, 3), the crop-or-pad
\* step gets target height h and target width w, both from build_image_map
\* called directly and through create_preprocess_fn.
C8_ResizeToRequestedHeightWidth ==
    /\ (fn = "build_image_map" /\ ~args.distort) =>
          /\ ret.image_map_fn.target_height = args.crop_shape[1]
          /\ ret.image_map_fn.target_width = args.crop_shape[2]
    /\ (fn = "create_preprocess_fn" /\ ret.returned /\ ~args.distort_image
            /\ Len(args.crop_shape) = 3) =>
          /\ ret.preprocess_fn.image_map_fn.target_height = args.crop_shape[1]
          /\ ret.preprocess_fn.image_map_fn.target_width = args.crop_shape[2]

---------------------------------------------------------------------------
\* Properties of the iteration (checked under PipeSpec).

Min(a, b) == IF a <= b THEN a ELSE b

\* The shuffle_buffer_size argument the iterated pipeline was built from.
ArgShuffleBuffer ==
    IF fn = "create_preprocess_fn"
    THEN args.shuffle_buffer_size
    ELSE args.train_shuffle_buffer_size

\* The i-th batch of the records taken in input order, pass after pass.
InOrderBatch(i) ==
    SubSeq(Repeat(ds, pipe.num_epochs),
           (i - 1) * pipe.batch_size + 1,
           Min(i * pipe.batch_size, pipe.num_epochs * Len(ds)))

\* C6: when batch_size divides the dataset size N, every batch has exactly
\* batch_size records and the finished pipeline has emitted
\* num_epochs * N / batch_size batches, for every shuffle-buffer size.
C6_BatchCounts ==
    Len(ds) % pipe.batch_size = 0 =>
        /\ \A i \in 1..Len(batches) : Len(batches[i]) = pipe.batch_size
        /\ \A i \in 1..Len(out) :
              out[i].ok /\ out[i].shape[1] = pipe.batch_size
        /\ Finished =>
              /\ Len(batches) * pipe.batch_size = pipe.num_epochs * Len(ds)
              /\ Len(out) = Len(batches)

C6_Witness ==
    /\ Finished
    /\ Len(ds) = 2
    /\ pipe.batch_size = 2
    /\ pipe.num_epochs = 2
    /\ pipe.shuffle_buffer_size = 2
    /\ Len(out) = 2

\* C7: a shuffle_buffer_size <= 1 is normalized to 1 and the records leave
\* the shuffle step in input order, so the batches are the in-order batches
\* whichever value <= 1 was given.
C7_NoShuffleBelowTwo ==
    ArgShuffleBuffer <= 1 =>
        /\ pipe.shuffle_buffer_size = 1
        /\ stream = SubSeq(Repeat(ds, pipe.num_epochs), 1, Len(stream))
        /\ \A i \in 1..Len(batches) : batches[i] = InOrderBatch(i)

C7_Witness ==
    /\ fn = "create_preprocess_fn"
    /\ args.shuffle_buffer_size = 0
    /\ Finished
    /\ Len(ds) = 3
    /\ pipe.num_epochs = 2
    /\ pipe.batch_size = 2
    /\ Len(batches) = 3

\* C9: in the train pipelines built with distortion enabled by
\* get_federated_datasets and get_centralized_datasets, every emitted batch
\* has at least batch_size records, so the random-crop size is element-wise
\* no larger than the batch's shape.
C9_CropSizeFitsEveryBatch ==
    ((Federated \/ Centralized) /\ pipe.image_map_fn.distort) =>
        /\ \A i \in 1..Len(batches) :
              /\ Len(batches[i]) >= pipe.batch_size
              /\ random_crop_ok(<<Len(batches[i])>> \o CIFAR_SHAPE,
                                pipe.image_map_fn.size)
        /\ \A i \in 1..Len(out) : out[i].ok

\* C10: the stream entering batch is num_epochs consecutive blocks of N
\* records, each block a permutation of the dataset: no record occurs twice
\* within a block, and at the end every record has been emitted exactly
\* num_epochs times.
C10_EpochBlocks ==
    LET N == Len(ds)
        E == pipe.num_epochs
    IN  /\ Len(stream) <= E * N
        /\ \A i \in 1..Len(stream) : stream[i] \in 1..N
        /\ \A i, j \in 1..Len(stream) :
              (i < j /\ (i - 1) \div N = (j - 1) \div N) =>
                  stream[i] # stream[j]
        /\ Exhausted =>
              \A r \in 1..N :
                  Cardinality({i \in 1..Len(stream) : stream[i] = r}) = E

C10_Witness ==
    /\ Exhausted
    /\ Len(ds) = 3
    /\ pipe.num_epochs = 2
    /\ stream = <<3, 1, 2, 2, 3, 1>>

=============================================================================
